---------------------------- MODULE Spec2Model ----------------------------
(***************************************************************************)
(* Model of the Japanese-Text-Server Flask application (src/app.py).       *)
(*                                                                         *)
(* Text is a sequence of one-character strings.  Three characters stand    *)
(* for whole pieces of text that the code never looks inside:              *)
(*   "j"  the four letters json (the tag that follows an opening fence),   *)
(*   "x"  a character of prose (not a backtick, not whitespace, and not    *)
(*        the start of any JSON value),                                    *)
(*   a document character (see Docs) is the complete text of one JSON      *)
(*        value, e.g. "F" is an object carrying all four result fields.    *)
(* "b" is a backtick and " " is a whitespace character.                    *)
(*                                                                         *)
(* A Python exception is a value: every operator that models a statement   *)
(* that may raise returns a record whose exc field names the exception     *)
(* ("" when none was raised).                                              *)
(***************************************************************************)
EXTENDS Integers, Sequences, FiniteSets, TLC

VARIABLES
    testing,      \* app.config['TESTING']                    (app.py:23)
    enabled,      \* limiter.enabled                          (app.py:26,37)
    hits,         \* the limiter's memory:// window counters  (app.py:26-31,67)
    healthResp,   \* the answer to the latest GET /health
    pc,           \* position of the /generate request in generate_text
    body,         \* the request body as sent by the client
    req,          \* locals jlpt_level and theme              (app.py:81-82)
    prompt,       \* local prompt                             (app.py:104)
    reply,        \* local response: the model's outcome      (app.py:107)
    calls,        \* number of model.generate_content calls made for the request
    json_str,     \* local json_str                           (app.py:112)
    result,       \* outcome of json.loads and the field check (app.py:113-117)
    resp          \* the HTTP response of the /generate request

vars == <<testing, enabled, hits, healthResp, pc, body, req, prompt, reply,
          calls, json_str, result, resp>>

shared == <<testing, enabled, hits>>

-----------------------------------------------------------------------------
(* Bounds *)

\* Largest number of pieces (see Pieces) a generated model reply is made of.
MaxPieces == 5

\* Largest number of GET /health requests counted in one hour window.
MaxHealth == 6

-----------------------------------------------------------------------------
(* Python values *)

\* A JSON value as Python sees it: its type t, its characters s when it is a
\* string, and n, the number when it is a number and the length when it is a
\* list.
Str(s)  == [t |-> "str",  s |-> s,    n |-> 0]
Num(n)  == [t |-> "num",  s |-> <<>>, n |-> n]
List(n) == [t |-> "list", s |-> <<>>, n |-> n]
Null    == [t |-> "null", s |-> <<>>, n |-> 0]
\* The key is not in the dict.
Absent  == [t |-> "absent", s |-> <<>>, n |-> 0]

\* bool(v)
Truthy(v) ==
    CASE v.t = "str"  -> v.s # <<>>
      [] v.t = "num"  -> v.n # 0
      [] v.t = "list" -> v.n # 0
      [] OTHER        -> FALSE

\* dict.get(key, ''): the default is the empty string
GetOrEmpty(v) == IF v.t = "absent" THEN Str(<<>>) ELSE v

\* str.upper() on one character, and on a string
UpperChar(c) == IF c = "n" THEN "N" ELSE c
Upper(s) == [i \in 1..Len(s) |-> UpperChar(s[i])]

-----------------------------------------------------------------------------
(* str methods used by extract_json_from_response *)

IsSpace(c) == c = " "

\* Whether p occurs in s at index i.
OccursAt(s, p, i) ==
    /\ i >= 1
    /\ i + Len(p) - 1 <= Len(s)
    /\ \A k \in 1..Len(p) : s[i + k - 1] = p[k]

\* str.find: the least index >= i at which p occurs in s, 0 when there is none.
RECURSIVE Find(_, _, _)
Find(s, p, i) ==
    IF i + Len(p) - 1 > Len(s) THEN 0
    ELSE IF OccursAt(s, p, i) THEN i
    ELSE Find(s, p, i + 1)

\* p in s
Contains(s, p) == Find(s, p, 1) # 0

\* s.split(p, 1)[0] and s.split(p, 1)[1]; the latter is only evaluated by the
\* code when p occurs in s.
SplitHead(s, p) ==
    LET i == Find(s, p, 1) IN IF i = 0 THEN s ELSE SubSeq(s, 1, i - 1)
SplitTailFirst(s, p) ==
    LET i == Find(s, p, 1) IN SubSeq(s, i + Len(p), Len(s))

\* s.replace(old, ''): leftmost, non-overlapping occurrences are deleted.
RECURSIVE Replace(_, _)
Replace(s, old) ==
    LET i == Find(s, old, 1) IN
    IF i = 0 THEN s
    ELSE SubSeq(s, 1, i - 1) \o Replace(SubSeq(s, i + Len(old), Len(s)), old)

\* s.strip()
RECURSIVE LStrip(_)
LStrip(s) == IF s # <<>> /\ IsSpace(Head(s)) THEN LStrip(Tail(s)) ELSE s
RECURSIVE RStrip(_)
RStrip(s) ==
    IF s # <<>> /\ IsSpace(s[Len(s)]) THEN RStrip(SubSeq(s, 1, Len(s) - 1)) ELSE s
Strip(s) == RStrip(LStrip(s))


-----------------------------------------------------------------------------
(* Module-level data *)

\* The keys of JLPT_LEVELS in insertion order.
LevelKeys == << <<"N","5">>, <<"N","4">>, <<"N","3">>, <<"N","2">>, <<"N","1">> >>

\* JLPT_LEVELS: key -> description.
JLPT_LEVELS ==
    (<<"N","5">> :> "Basic Japanese knowledge. ~800 basic vocabulary words, basic grammar patterns.")
 @@ (<<"N","4">> :> "Basic Japanese ability. ~1,500 vocabulary words, basic grammar patterns.")
 @@ (<<"N","3">> :> "Intermediate Japanese ability. ~3,000 vocabulary words, intermediate grammar.")
 @@ (<<"N","2">> :> "Pre-advanced Japanese ability. ~6,000 vocabulary words, advanced grammar.")
 @@ (<<"N","1">> :> "Advanced Japanese ability. ~10,000 vocabulary words, complex grammar patterns.")

\* The limits given to the limiter, in the order the code lists them.
HourLimit == 50
MinuteLimit == 5
GenerateLimit == 5

\* A parsed JSON value as generate_text uses it: its type, its keys when it is
\* an object (its elements when it is a list), whether the text
\* japanese_text occurs in it when it is a string, and the value stored under
\* the key japanese_text.
Value(t, keys, sub, jt) == [t |-> t, keys |-> keys, sub |-> sub, jt |-> jt]
NoValue == Value("none", {}, FALSE, "")

ResultFields == {"japanese_text", "english_translation", "vocabulary", "grammar_points"}

MOCK_RESPONSE == Value("obj", ResultFields, FALSE, "mock")

-----------------------------------------------------------------------------
(* HTTP responses *)

\* jsonify(...), status: error is the fixed start of the error message, exc
\* the exception whose text completes it, detail the catalog keys the level
\* message joins, raw the model text echoed under japanese_text (hasRaw says
\* whether the key is in the body) and json the value of a 200 body.
Response(status, error, exc, detail, hasRaw, raw, json) ==
    [status |-> status, error |-> error, exc |-> exc, detail |-> detail,
     hasRaw |-> hasRaw, raw |-> raw, json |-> json]

NoResponse == Response(0, "", "", <<>>, FALSE, <<>>, NoValue)

ErrorResponse(status, error, exc) ==
    Response(status, error, exc, <<>>, FALSE, <<>>, NoValue)

\* The limiter's answer when a limit is exceeded.
TooManyRequests == ErrorResponse(429, "Too Many Requests", "RateLimitExceeded")

BodyRequired == ErrorResponse(400, "Request body is required", "")
InvalidJson(exc) == ErrorResponse(400, "Invalid JSON format: ", exc)
InvalidLevelResponse ==
    Response(400, "Invalid JLPT level. Must be one of: ", "", LevelKeys,
             FALSE, <<>>, NoValue)
ThemeRequired == ErrorResponse(400, "Theme is required and must be a string", "")
InternalError(exc) == ErrorResponse(500, "Internal server error: ", exc)
ProcessFailure(exc, text) ==
    Response(500, "Failed to process response: ", exc, <<>>, TRUE, text, NoValue)
Ok(value) == Response(200, "", "", <<>>, FALSE, <<>>, value)

Healthy == [status |-> 200, json |-> "healthy"]
HealthLimited == [status |-> 429, json |-> ""]
NoHealth == [status |-> 0, json |-> ""]

-----------------------------------------------------------------------------
(* Request bodies *)

\* A request body: malformed text, or a JSON value val; when val is an
\* object, the values under jlpt_level and theme (Absent when the key is
\* missing), val.n being the number of keys.
Malformed ==
    [syntax |-> "malformed", val |-> Null, jlpt_level |-> Absent, theme |-> Absent]
NonObject(v) ==
    [syntax |-> "json", val |-> v, jlpt_level |-> Absent, theme |-> Absent]
Keys(level, theme, extra) ==
    (IF level.t = "absent" THEN 0 ELSE 1) + (IF theme.t = "absent" THEN 0 ELSE 1) + extra
Object(level, theme, extra) ==
    [syntax |-> "json",
     val |-> [t |-> "obj", s |-> <<>>, n |-> Keys(level, theme, extra)],
     jlpt_level |-> level, theme |-> theme]

\* bool(data)
TruthyData(v) == IF v.t = "obj" THEN v.n # 0 ELSE Truthy(v)

LevelInputs ==
    { Absent, Null, Num(5), Str(<<>>), Str(<<"N","6">>), Str(<<"N","5">>),
      Str(<<"n","5">>), Str(<<"N","4">>), Str(<<"n","3">>), Str(<<"N","2">>),
      Str(<<"N","1">>) }

ThemeInputs ==
    { Absent, Null, Num(5), Str(<<>>), Str(<<" ">>), Str(<<"T">>) }

Bodies ==
    { Malformed, NonObject(Null), NonObject(List(0)), NonObject(List(1)),
      NonObject(Num(5)), NonObject(Str(<<"T">>)), Object(Absent, Absent, 1) }
    \cup { Object(l, t, 0) : l \in LevelInputs, t \in ThemeInputs }

-----------------------------------------------------------------------------
(* Request validation, app.py:70-89 *)

Raised(e) == [exc |-> e, v |-> Null]
Returned(v) == [exc |-> "", v |-> v]

\* request.get_json(): raises on a body that is not JSON.
get_json(b) == IF b.syntax = "malformed" THEN Raised("BadRequest") ELSE Returned(b.val)

\* data.get(key, ''): only a dict has .get
DataGet(b, key) ==
    IF b.val.t # "obj" THEN Raised("AttributeError")
    ELSE Returned(GetOrEmpty(IF key = "jlpt_level" THEN b.jlpt_level ELSE b.theme))

\* data.get('jlpt_level', '').upper(): only a str has .upper
GetLevel(b) ==
    LET g == DataGet(b, "jlpt_level") IN
    IF g.exc # "" THEN g
    ELSE IF g.v.t # "str" THEN Raised("AttributeError")
    ELSE Returned(Str(Upper(g.v.s)))

\* data.get('theme', '')
GetTheme(b) == DataGet(b, "theme")

\* not jlpt_level or jlpt_level not in JLPT_LEVELS
LevelRejected(jlpt_level) ==
    \/ jlpt_level = <<>>
    \/ jlpt_level \notin DOMAIN JLPT_LEVELS

\* not theme or not isinstance(theme, str)
ThemeRejected(theme) == ~Truthy(theme) \/ theme.t # "str"

NoReq == [jlpt_level |-> <<>>, theme |-> Absent]

-----------------------------------------------------------------------------
(* Prompt, app.py:132-148 *)

\* The f-string: the fixed template text with theme, jlpt_level and
\* JLPT_LEVELS[jlpt_level] put in.
create_gemini_prompt(jlpt_level, theme) ==
    [theme |-> theme, jlpt_level |-> jlpt_level,
     description |-> JLPT_LEVELS[jlpt_level]]

NoPrompt == [theme |-> Absent, jlpt_level |-> <<>>, description |-> ""]

-----------------------------------------------------------------------------
(* Response extraction, app.py:110-126 and 150-159 *)

\* Three backticks, and three backticks followed by json.
FENCE == <<"b", "b", "b">>
OPEN == <<"b", "b", "b", "j">>

\* A split without its limit of one, taking the last part.
RECURSIVE FindLast(_, _, _)
FindLast(s, p, i) ==
    IF i < 1 THEN 0
    ELSE IF OccursAt(s, p, i) THEN i
    ELSE FindLast(s, p, i - 1)
AfterLastOpen(response_text) ==
    LET i == FindLast(response_text, OPEN, Len(response_text))
    IN SubSeq(response_text, i + Len(OPEN), Len(response_text))

\* response_text.split(OPEN, 1)[1]
AfterOpen(response_text) == SplitTailFirst(response_text, OPEN)

\* .split(FENCE, 1)[0]
BeforeClose(rest) == SplitHead(rest, FENCE)

extract_json_from_response(response_text) ==
    LET picked ==
            IF Contains(response_text, OPEN)
               /\ Contains(AfterOpen(response_text), FENCE)
            THEN Strip(BeforeClose(AfterOpen(response_text)))
            ELSE response_text
    IN Strip(Replace(picked, FENCE))

\* The JSON documents a reply may carry, each one character of the text.
Docs ==
    ("F" :> Value("obj", ResultFields, FALSE, "generated"))
 @@ ("M" :> Value("obj", {"japanese_text"}, FALSE, "generated"))
 @@ ("E" :> Value("obj", {"japanese_text", "english_translation"}, FALSE, ""))
 @@ ("O" :> Value("obj", {"english_translation"}, FALSE, ""))
 @@ ("L" :> Value("list", {"japanese_text"}, FALSE, ""))
 @@ ("A" :> Value("list", {"a"}, FALSE, ""))
 @@ ("S" :> Value("str", {}, TRUE, ""))
 @@ ("7" :> Value("num", {}, FALSE, ""))
 @@ ("Z" :> Value("null", {}, FALSE, ""))

Parsed(e, v) == [exc |-> e, value |-> v]
NoResult == Parsed("", NoValue)

\* json.loads: the candidate must be exactly one JSON document.
json_loads(s) ==
    IF Len(s) = 1 /\ s[1] \in DOMAIN Docs
    THEN Parsed("", Docs[s[1]])
    ELSE Parsed("JSONDecodeError", NoValue)

\* 'japanese_text' not in result, and the raise that follows it: a key test
\* on a dict, an element test on a list, a substring test on a str, and a
\* TypeError on a value that is no container.
CheckField(value) ==
    CASE value.t \in {"obj", "list"} ->
            IF "japanese_text" \in value.keys THEN Parsed("", value)
            ELSE Parsed("ValueError", NoValue)
      [] value.t = "str" ->
            IF value.sub THEN Parsed("", value) ELSE Parsed("ValueError", NoValue)
      [] OTHER -> Parsed("TypeError", NoValue)

\* Lines 113-117.
ParseResult(s) ==
    LET p == json_loads(s) IN IF p.exc # "" THEN p ELSE CheckField(p.value)

\* except (json.JSONDecodeError, ValueError)
CaughtInner(e) == e \in {"JSONDecodeError", "ValueError"}

\* The model's outcome: generate_content raised, or it returned a response
\* whose .text raises ValueError (a reply without text), or one with text.
Failure == [kind |-> "raise", text |-> <<>>]
Blocked == [kind |-> "blocked", text |-> <<>>]
Text(s) == [kind |-> "text", text |-> s]
NoReply == [kind |-> "none", text |-> <<>>]


-----------------------------------------------------------------------------
(* Rate limiting, app.py:26-37 and 67 *)

Min(a, b) == IF a < b THEN a ELSE b

\* One fixed-window counter is hit: the new count, kept no larger than
\* limit + 1 (every count above the limit behaves alike).
HitCount(count, limit) == Min(count + 1, limit + 1)

\* The limits of a route are hit in the order given, up to the first one that
\* is exceeded.  /generate carries its own "5 per minute", which replaces the
\* defaults; every other route carries the default limits.
HitLimits(h, endpoint) ==
    IF endpoint = "generate"
    THEN [hits |-> [h EXCEPT !.generate_min = HitCount(@, GenerateLimit)],
          ok |-> h.generate_min + 1 <= GenerateLimit]
    ELSE IF h.health_hour + 1 > HourLimit
    THEN [hits |-> [h EXCEPT !.health_hour = HitCount(@, HourLimit)], ok |-> FALSE]
    ELSE [hits |-> [h EXCEPT !.health_hour = HitCount(@, HourLimit),
                             !.health_min = HitCount(@, MinuteLimit)],
          ok |-> h.health_min + 1 <= MinuteLimit]

\* The before_request functions in the order they were registered: the
\* limiter's check (registered by Limiter(app=app)), then check_testing.  A
\* request the limiter rejects does not reach check_testing.
BeforeRequest(endpoint) ==
    LET l == IF enabled THEN HitLimits(hits, endpoint)
             ELSE [hits |-> hits, ok |-> TRUE]
    IN [hits |-> l.hits,
        ok |-> l.ok,
        enabled |-> IF l.ok /\ testing THEN FALSE ELSE enabled]

-----------------------------------------------------------------------------
(* The server *)

NoHits == [generate_min |-> 0, health_min |-> 0, health_hour |-> 0]

Init ==
    /\ testing \in BOOLEAN
    /\ enabled = TRUE
    /\ hits = NoHits
    /\ healthResp = NoHealth
    /\ pc = "Idle"
    /\ body = Malformed
    /\ req = NoReq
    /\ prompt = NoPrompt
    /\ reply = NoReply
    /\ calls = 0
    /\ json_str = <<>>
    /\ result = NoResult
    /\ resp = NoResponse

\* return jsonify(...), status
Respond(r) ==
    /\ pc' = "Responded"
    /\ resp' = r

\* GET /health, app.py:61-64
health_check ==
    /\ hits.health_hour < MaxHealth
    /\ LET b == BeforeRequest("health") IN
        /\ hits' = b.hits
        /\ enabled' = b.enabled
        /\ healthResp' = IF b.ok THEN Healthy ELSE HealthLimited
    /\ UNCHANGED <<testing, pc, body, req, prompt, reply, calls, json_str,
                   result, resp>>

\* A POST /generate arrives with body b and passes the before_request
\* functions, or is answered 429 by the limiter.
Receive(b) ==
    /\ pc \in {"Idle", "Responded"}
    /\ LET a == BeforeRequest("generate") IN
        /\ hits' = a.hits
        /\ enabled' = a.enabled
        /\ IF a.ok
           THEN pc' = "Received" /\ resp' = NoResponse
           ELSE Respond(TooManyRequests)
    /\ body' = b
    /\ req' = NoReq
    /\ prompt' = NoPrompt
    /\ reply' = NoReply
    /\ calls' = 0
    /\ json_str' = <<>>
    /\ result' = NoResult
    /\ UNCHANGED <<testing, healthResp>>

\* app.py:70-77
ParseBody ==
    /\ pc = "Received"
    /\ LET data == get_json(body) IN
        IF data.exc # "" THEN Respond(InvalidJson(data.exc))
        ELSE IF ~TruthyData(data.v) THEN Respond(BodyRequired)
        ELSE pc' = "BodyParsed" /\ UNCHANGED resp
    /\ UNCHANGED <<testing, enabled, hits, healthResp, body, req, prompt,
                   reply, calls, json_str, result>>

\* app.py:79-89, and 128-130 for what lines 81-82 raise
Validate ==
    /\ pc = "BodyParsed"
    /\ LET jlpt_level == GetLevel(body)
           theme == GetTheme(body)
       IN  IF jlpt_level.exc # ""
           THEN Respond(InternalError(jlpt_level.exc)) /\ UNCHANGED req
           ELSE IF theme.exc # ""
           THEN Respond(InternalError(theme.exc)) /\ UNCHANGED req
           ELSE IF LevelRejected(jlpt_level.v.s)
           THEN Respond(InvalidLevelResponse) /\ UNCHANGED req
           ELSE IF ThemeRejected(theme.v)
           THEN Respond(ThemeRequired) /\ UNCHANGED req
           ELSE /\ pc' = "Validated"
                /\ req' = [jlpt_level |-> jlpt_level.v.s, theme |-> theme.v]
                /\ UNCHANGED resp
    /\ UNCHANGED <<testing, enabled, hits, healthResp, body, prompt, reply,
                   calls, json_str, result>>

\* The testing branch left out.
MockNever == FALSE

\* if app.config.get('TESTING'), app.py:95; mock_responses is part of the
\* repository, so the import of line 97 succeeds.
UseMock == testing

\* app.py:95-99
MockRespond ==
    /\ pc = "Validated"
    /\ UseMock
    /\ Respond(Ok(MOCK_RESPONSE))
    /\ UNCHANGED <<testing, enabled, hits, healthResp, body, req, prompt,
                   reply, calls, json_str, result>>

\* app.py:104
BuildPrompt ==
    /\ pc = "Validated"
    /\ ~UseMock
    /\ prompt' = create_gemini_prompt(req.jlpt_level, req.theme)
    /\ pc' = "PromptBuilt"
    /\ UNCHANGED <<testing, enabled, hits, healthResp, body, req, reply,
                   calls, json_str, result, resp>>

\* A failed call is made again.
AfterModelRetry(o) ==
    IF o.kind = "raise"
    THEN UNCHANGED <<pc, resp>>
    ELSE pc' = "ModelInvoked" /\ UNCHANGED resp

\* What becomes of the request once generate_content has ended with
\* outcome o: the except of lines 128-130 answers a raise.
AfterModel(o) ==
    IF o.kind = "raise"
    THEN Respond(InternalError("Exception"))
    ELSE pc' = "ModelInvoked" /\ UNCHANGED resp

\* app.py:107
InvokeModel(o) ==
    /\ pc = "PromptBuilt"
    /\ calls' = calls + 1
    /\ reply' = o
    /\ AfterModel(o)
    /\ UNCHANGED <<testing, enabled, hits, healthResp, body, req, prompt,
                   json_str, result>>

\* app.py:112-117.  Reading .text of a reply without text raises ValueError.
Extract ==
    /\ pc = "ModelInvoked"
    /\ IF reply.kind = "blocked"
       THEN json_str' = <<>> /\ result' = Parsed("ValueError", NoValue)
       ELSE /\ json_str' = extract_json_from_response(reply.text)
            /\ result' = ParseResult(json_str')
    /\ pc' = "ExtractionAttempted"
    /\ UNCHANGED <<testing, enabled, hits, healthResp, body, req, prompt,
                   reply, calls, resp>>

\* app.py:119-130: the answer after the extraction.  Inside the inner except
\* the code reads response.text again, which raises again for a reply
\* without text, and the outer except answers.
ExtractionResponse(r, o) ==
    IF r.exc = "" THEN Ok(r.value)
    ELSE IF CaughtInner(r.exc)
    THEN IF o.kind = "blocked" THEN InternalError("ValueError")
         ELSE ProcessFailure(r.exc, o.text)
    ELSE InternalError(r.exc)

RespondExtraction ==
    /\ pc = "ExtractionAttempted"
    /\ Respond(ExtractionResponse(result, reply))
    /\ UNCHANGED <<testing, enabled, hits, healthResp, body, req, prompt,
                   reply, calls, json_str, result>>

\* The one-minute windows of the limiter expire.
MinuteTick ==
    /\ hits' = [hits EXCEPT !.generate_min = 0, !.health_min = 0]
    /\ UNCHANGED <<testing, enabled, healthResp, pc, body, req, prompt, reply,
                   calls, json_str, result, resp>>

\* The one-hour window expires, and the one-minute windows with it.
HourTick ==
    /\ hits' = NoHits
    /\ UNCHANGED <<testing, enabled, healthResp, pc, body, req, prompt, reply,
                   calls, json_str, result, resp>>

\* The model replies the server is run against.
Replies ==
    { <<d>> : d \in DOMAIN Docs }
    \cup { <<>>,
           <<"x", " ", "F">>,
           FENCE \o <<"M">> \o FENCE,
           OPEN \o <<"x">> \o FENCE,
           <<"x", " ">> \o OPEN \o <<" ", "F", " ">> \o FENCE \o <<" ", "x">>,
           <<"x">> \o OPEN \o <<"7">> \o FENCE }

Outcomes == {Failure, Blocked} \cup { Text(t) : t \in Replies }

Next ==
    \/ health_check
    \/ \E b \in Bodies : Receive(b)
    \/ ParseBody
    \/ Validate
    \/ MockRespond
    \/ BuildPrompt
    \/ \E o \in Outcomes : InvokeModel(o)
    \/ Extract
    \/ RespondExtraction
    \/ MinuteTick
    \/ HourTick

Spec == Init /\ [][Next]_vars


-----------------------------------------------------------------------------
(* The extractor on every bounded reply *)

\* The pieces bounded replies are put together from.
Pieces == { <<"b">>, FENCE, OPEN, <<" ">>, <<"x">>, <<"F">> }

\* Every text made of at most n pieces.
RECURSIVE TextsOf(_)
TextsOf(n) ==
    IF n = 0 THEN { <<>> }
    ELSE LET T == TextsOf(n - 1) IN T \cup { t \o q : t \in T, q \in Pieces }

\* generate_text has validated {"jlpt_level": "N5", "theme": "T"}, built the
\* prompt and received some text from the model.
InitExtract ==
    /\ testing = FALSE
    /\ enabled = TRUE
    /\ hits = [NoHits EXCEPT !.generate_min = 1]
    /\ healthResp = NoHealth
    /\ pc = "ModelInvoked"
    /\ body = Object(Str(<<"N","5">>), Str(<<"T">>), 0)
    /\ req = [jlpt_level |-> <<"N","5">>, theme |-> Str(<<"T">>)]
    /\ prompt = create_gemini_prompt(<<"N","5">>, Str(<<"T">>))
    /\ reply \in { Text(t) : t \in TextsOf(MaxPieces) }
    /\ calls = 1
    /\ json_str = <<>>
    /\ result = NoResult
    /\ resp = NoResponse

NextExtract ==
    \/ Extract
    \/ RespondExtraction

SpecExtract == InitExtract /\ [][NextExtract]_vars

-----------------------------------------------------------------------------
(* Vocabulary of the claims *)

Done == pc = "Responded"

\* The request was answered by generate_text, not by the limiter.
Answered == Done /\ resp.status # 429

BodyIsObject == body.syntax = "json" /\ body.val.t = "obj"

CatalogKeys == { LevelKeys[i] : i \in 1..Len(LevelKeys) }

\* The body's jlpt_level, upper-cased, is a catalog key.
LevelGiven == body.jlpt_level.t = "str" /\ Upper(body.jlpt_level.s) \in CatalogKeys

\* The body's theme is absent, empty, only whitespace, or not a string.
ThemeMissing ==
    \/ body.theme.t # "str"
    \/ \A i \in 1..Len(body.theme.s) : IsSpace(body.theme.s[i])

\* r is s without its leading and trailing whitespace.
IsTrimOf(r, s) ==
    \E a \in 1..(Len(s) + 1) : \E b \in 0..Len(s) :
        /\ r = SubSeq(s, a, b)
        /\ \A k \in 1..(a - 1) : IsSpace(s[k])
        /\ \A k \in (b + 1)..Len(s) : IsSpace(s[k])
        /\ r # <<>> => ~IsSpace(r[1]) /\ ~IsSpace(r[Len(r)])

\* t holds an opening fence tagged json with a closing fence marker after it.
HasFencedBlock(t) ==
    \E i \in 1..Len(t) : \E j \in 1..Len(t) :
        OccursAt(t, OPEN, i) /\ j >= i + Len(OPEN) /\ OccursAt(t, FENCE, j)

\* Where the first opening tag starts, and where the next closing marker
\* after it starts.
FirstOpen(t) ==
    CHOOSE i \in 1..Len(t) :
        OccursAt(t, OPEN, i) /\ \A k \in 1..(i - 1) : ~OccursAt(t, OPEN, k)
NextClose(t) ==
    CHOOSE j \in 1..Len(t) :
        /\ j >= FirstOpen(t) + Len(OPEN)
        /\ OccursAt(t, FENCE, j)
        /\ \A k \in (FirstOpen(t) + Len(OPEN))..(j - 1) : ~OccursAt(t, FENCE, k)
Fenced(t) == SubSeq(t, FirstOpen(t) + Len(OPEN), NextClose(t) - 1)

\* t with its fence markers taken out, read left to right: of every run of
\* backticks, each complete group of three goes.  run counts the backticks
\* of the current run that are not yet part of a complete group.
RECURSIVE Unfence(_, _)
Unfence(t, run) ==
    LET held == [k \in 1..run |-> "b"] IN
    IF t = <<>> THEN held
    ELSE IF Head(t) = "b"
    THEN IF run = 2 THEN Unfence(Tail(t), 0) ELSE Unfence(Tail(t), run + 1)
    ELSE held \o <<Head(t)>> \o Unfence(Tail(t), 0)

Extracted == pc \in {"ExtractionAttempted", "Responded"} /\ reply.kind = "text"

\* The candidate parses as JSON, and the parsed value is an object that
\* carries the primary-text field.
CandidateParses == json_loads(json_str).exc = ""
HasPrimaryText(v) == v.t = "obj" /\ "japanese_text" \in v.keys

Rank(p) ==
    CASE p = "Idle" -> 0
      [] p = "Received" -> 1
      [] p = "BodyParsed" -> 2
      [] p = "Validated" -> 3
      [] p = "PromptBuilt" -> 4
      [] p = "ModelInvoked" -> 5
      [] p = "ExtractionAttempted" -> 6
      [] p = "Responded" -> 7


-----------------------------------------------------------------------------
(* Claims *)

\* C1: the rules run in the order body-parse, level, theme and the first
\* failing rule decides the answer: a body that is no JSON object is answered
\* 400 "Invalid JSON format:", an object with an invalid level is answered
\* with the level error whatever its theme, and the theme error is given
\* only to an object with a valid level.
C1_FirstFailureWins ==
    Answered =>
        /\ ~BodyIsObject => resp.status = 400 /\ resp.error = "Invalid JSON format: "
        /\ BodyIsObject /\ ~LevelGiven => resp = InvalidLevelResponse
        /\ resp = ThemeRequired => BodyIsObject /\ LevelGiven

\* C2: a request whose body is a JSON object is answered with the level
\* error exactly when its jlpt_level, upper-cased, is no catalog key (absent
\* included), whatever the theme.
C2_LevelErrorExactly ==
    Answered /\ BodyIsObject => (resp = InvalidLevelResponse <=> ~LevelGiven)

\* C3: a request with a valid level whose theme is absent, empty, only
\* whitespace or no string is answered with the theme error and never
\* reaches prompt building or the model call.
C3_ThemeRequired ==
    pc # "Idle" /\ BodyIsObject /\ LevelGiven /\ ThemeMissing =>
        /\ pc \notin {"Validated", "PromptBuilt", "ModelInvoked", "ExtractionAttempted"}
        /\ prompt = NoPrompt
        /\ calls = 0
        /\ Answered => resp = ThemeRequired

\* C4: every GET /health is answered 200 {"status": "healthy"}, whatever
\* requests came before it and whatever the model did.
C4_HealthAlways200 ==
    healthResp # NoHealth => healthResp = Healthy

\* C5: when the model returned text and the extraction fails (the candidate
\* does not parse, or the parsed value lacks the primary-text field), the
\* answer is 500 "Failed to process response:" with japanese_text equal to
\* the raw model text.
C5_FailureEchoesRawText ==
    Done /\ reply.kind = "text"
         /\ (~CandidateParses \/ ~HasPrimaryText(json_loads(json_str).value)) =>
        /\ resp.status = 500
        /\ resp.error = "Failed to process response: "
        /\ resp.hasRaw
        /\ resp.raw = reply.text

\* C6: a reply whose candidate parses is answered 200 only if the parsed
\* value is an object with a non-empty japanese_text; otherwise the outcome
\* is the schema failure (ValueError), not the parse failure.
C6_NonEmptyPrimaryText ==
    Done /\ reply.kind = "text" /\ CandidateParses =>
        LET v == json_loads(json_str).value IN
        IF HasPrimaryText(v) /\ v.jt # ""
        THEN resp = Ok(v)
        ELSE resp.status = 500 /\ resp.exc = "ValueError"

\* C8: every 200 answer of /generate carries the four fields japanese_text,
\* english_translation, vocabulary and grammar_points.
C8_FourFields ==
    Done /\ resp.status = 200 =>
        resp.json.t = "obj" /\ ResultFields \subseteq resp.json.keys

\* C7: for a reply with a fenced block tagged json the candidate is the text
\* between the end of the first opening tag and the next closing marker,
\* trimmed; for any other reply it is the whole text with the fence markers
\* removed, trimmed.
C7_Candidate ==
    Extracted =>
        IF HasFencedBlock(reply.text)
        THEN IsTrimOf(json_str, Fenced(reply.text))
        ELSE IsTrimOf(json_str, Unfence(reply.text, 0))

\* C7 witness: a fenced block with prose before the opening tag and text
\* after the closing marker, from which only the document was taken.
C7_Witness ==
    /\ Extracted
    /\ HasFencedBlock(reply.text)
    /\ FirstOpen(reply.text) > 1
    /\ NextClose(reply.text) + Len(FENCE) <= Len(reply.text)
    /\ json_str = <<"F">>

\* C9: a failed model call is answered 500 "Internal server error:" and is
\* not retried; a request has a response exactly when generate_text has
\* ended, and that response stays its response until the next request; no
\* step of generate_text changes the state shared between requests.
C9_FailureIsTerminal ==
    /\ [](/\ calls <= 1
          /\ reply.kind = "raise" =>
                Done /\ calls = 1 /\ resp = InternalError("Exception")
          /\ Done <=> resp # NoResponse)
    /\ [][/\ resp' # resp =>
                \/ pc \in {"Idle", "Responded"}
                \/ resp = NoResponse /\ pc' = "Responded"
          /\ pc \notin {"Idle", "Responded"} /\ pc' # pc => UNCHANGED shared]_vars

\* C9 witness: the model call failed and the request was answered.
C9_Witness ==
    Done /\ reply.kind = "raise" /\ calls = 1 /\ resp.status = 500

=============================================================================
